---- MODULE Spec2Model ----
(***************************************************************************)
(* A model of xmlmerge.py (mikhoul/XMLTV-EPG-Tools): the cache/fetch       *)
(* layer, the ingest collector, the normalization passes and the run of    *)
(* xmlmerge().  Strings are sequences of one-character strings so that the *)
(* regular expressions and the escaping functions of the source are        *)
(* computed, character by character, as the source computes them.          *)
(***************************************************************************)
EXTENDS Integers, Sequences, FiniteSets, TLC

VARIABLES
    pc,                 \* position of xmlmerge(): the step to run next
    cfg,                \* number of sources in cfg['files'] (0 until the YAML is read)
    srcIdx,             \* number of configured sources already handed to get_channels_programs
    docs,               \* history: per handled source, the result of open_xml and the parsed root
    output_channels,    \* dict normalized id -> <channel>, in insertion order
    seen_channel_ids,   \* set of canonical (first-seen literal) channel ids
    output_programs,    \* dict literal channel id -> list of <programme>, in insertion order
    merged,             \* the tree built by build_merged_tree and mutated by the passes
    trace,              \* history: the steps of xmlmerge() executed so far
    written,            \* the tree handed to write_output
    fnArg,              \* pure-function specifications: the argument
    fnHist,             \* pure-function specifications: the results of successive applications
    now,                \* cache specification: wall clock, in hours
    cache,              \* cache specification: cached file -> last-modified time, NoFile if absent
    resolves            \* cache specification: history of open_xml calls on network sources

vars == << pc, cfg, srcIdx, docs, output_channels, seen_channel_ids, output_programs,
           merged, trace, written, fnArg, fnHist, now, cache, resolves >>

runVars   == << pc, cfg, srcIdx, docs, output_channels, seen_channel_ids, output_programs,
                merged, trace, written >>
fnVars    == << fnArg, fnHist >>
cacheVars == << now, cache, resolves >>

\* Python's None where a string is expected (an absent attribute): a value no
\* sequence of characters equals
None == << "None" >>

(***************************************************************************)
(* Characters and small string helpers                                     *)
(***************************************************************************)
Digits == << "0", "1", "2", "3", "4", "5", "6", "7", "8", "9" >>

IsDigit(c) == \E i \in 1..10 : Digits[i] = c

DigitVal(c) == (CHOOSE i \in 1..10 : Digits[i] = c) - 1

IsSign(c) == c \in {"+", "-"}

IsSpace(c) == c \in {" ", "\n", "\t"}

Letters == { "a", "b", "c", "d", "e", "f", "g", "h", "i", "j", "k", "l", "m",
             "n", "o", "p", "q", "r", "s", "t", "u", "v", "w", "x", "y", "z",
             "A", "B", "C", "D", "E", "F", "G", "H", "I", "J", "K", "L", "M",
             "N", "O", "P", "Q", "R", "S", "T", "U", "V", "W", "X", "Y", "Z" }

IsAlpha(c) == c \in Letters

IsHex(c) == IsDigit(c) \/ c \in {"a", "b", "c", "d", "e", "f", "A", "B", "C", "D", "E", "F"}

\* s[i..j] (empty when j < i)
Slice(s, i, j) == IF j < i THEN << >> ELSE SubSeq(s, i, j)

\* does s carry the literal lit at position i
HasAt(s, i, lit) ==
    /\ i >= 1
    /\ i + Len(lit) - 1 <= Len(s)
    /\ SubSeq(s, i, i + Len(lit) - 1) = lit

AllDigits(s) == \A i \in 1..Len(s) : IsDigit(s[i])

RECURSIVE IntOf(_)
\* int("0123") of a sequence of digits
IntOf(s) == IF s = << >> THEN 0
            ELSE 10 * IntOf(SubSeq(s, 1, Len(s) - 1)) + DigitVal(s[Len(s)])

RECURSIVE StrOf(_)
\* str(n) for n >= 0
StrOf(n) == IF n < 10 THEN << Digits[n + 1] >>
            ELSE StrOf(n \div 10) \o << Digits[(n % 10) + 1] >>

RECURSIVE ZeroPad(_, _)
\* f"{n:0wd}": left-pad with zeros up to width w, never truncating
ZeroPad(s, w) == IF Len(s) >= w THEN s ELSE ZeroPad(<< "0" >> \o s, w)

RECURSIVE Pow10(_)
Pow10(k) == IF k = 0 THEN 1 ELSE 10 * Pow10(k - 1)

RECURSIVE DigitRun(_, _)
\* length of the maximal run of digits starting at position i (regex \d+, greedy)
DigitRun(s, i) == IF i <= Len(s) /\ IsDigit(s[i]) THEN 1 + DigitRun(s, i + 1) ELSE 0

RECURSIVE SpaceRun(_, _)
\* length of the maximal run of whitespace starting at position i (regex \s*, greedy)
SpaceRun(s, i) == IF i <= Len(s) /\ IsSpace(s[i]) THEN 1 + SpaceRun(s, i + 1) ELSE 0

\* regex `$` at position p (the position after the match): the end of the string,
\* or just before a newline that ends the string
AtDollar(s, p) == p = Len(s) + 1 \/ (p = Len(s) /\ s[p] = "\n")

(***************************************************************************)
(* tz_pattern and normalize_timezones                                      *)
(***************************************************************************)
\* tz_pattern = ([+-])(\d{1,2}):(\d{2})$ tried at position i: the number of hour
\* digits of the match (\d{1,2} is greedy), 0 when there is none.
TzMatchAt(s, i) ==
    IF i + 5 <= Len(s) /\ IsSign(s[i]) /\ IsDigit(s[i+1]) /\ IsDigit(s[i+2])
                 /\ s[i+3] = ":" /\ IsDigit(s[i+4]) /\ IsDigit(s[i+5])
                 /\ AtDollar(s, i + 6) THEN 2
    ELSE IF i + 4 <= Len(s) /\ IsSign(s[i]) /\ IsDigit(s[i+1])
                 /\ s[i+2] = ":" /\ IsDigit(s[i+3]) /\ IsDigit(s[i+4])
                 /\ AtDollar(s, i + 5) THEN 1
    ELSE 0

\* the replacement lambda: f"{m.group(1)}{int(m.group(2)):02d}{m.group(3)}"
TzRepl_NoPad(sign, hour, minutes) == << sign >> \o hour \o minutes

TzRepl(sign, hour, minutes) == << sign >> \o ZeroPad(StrOf(IntOf(hour)), 2) \o minutes

\* re.sub scans left to right and rewrites the leftmost match
RECURSIVE TzSubFrom(_, _)
TzSubFrom(s, i) ==
    IF i > Len(s) THEN s
    ELSE LET h == TzMatchAt(s, i) IN
         IF h = 0 THEN TzSubFrom(s, i + 1)
         ELSE Slice(s, 1, i - 1)
              \o TzRepl(s[i], SubSeq(s, i + 1, i + h), SubSeq(s, i + h + 2, i + h + 3))
              \o Slice(s, i + h + 4, Len(s))

TzSub(s) == TzSubFrom(s, 1)

\* the body of the attribute loop: `if ts:` skips a missing or empty value
TzAttr(ts) == IF ts = None \/ ts = << >> THEN ts ELSE TzSub(ts)

(***************************************************************************)
(* sci_full and normalize_exponents                                        *)
(***************************************************************************)
\* sci_full = (\d+\.\d+e[+-]\d+)(?:\s*([+-]\d{4}))?$ with re.IGNORECASE, applied
\* with .match (anchored at the start).  [ok, a, b, c, suf]: a, b, c are the
\* lengths of the integer, fraction and exponent digit runs; suf is group 2
\* (None when the optional group did not take part in the match).
SciMatch(s) ==
    LET a  == DigitRun(s, 1)
        b  == DigitRun(s, a + 2)
        c  == DigitRun(s, a + b + 4)
        p  == a + b + 4 + c                 \* position after group 1
        q  == p + SpaceRun(s, p)            \* position of the suffix sign
        no == [ok |-> FALSE, a |-> 0, b |-> 0, c |-> 0, suf |-> None]
    IN  IF /\ a >= 1
           /\ HasAt(s, a + 1, << "." >>)
           /\ b >= 1
           /\ a + b + 3 <= Len(s)
           /\ s[a + b + 2] \in {"e", "E"}
           /\ IsSign(s[a + b + 3])
           /\ c >= 1
        THEN IF /\ q + 4 <= Len(s)
                /\ IsSign(s[q])
                /\ AllDigits(SubSeq(s, q + 1, q + 4))
                /\ AtDollar(s, q + 5)
             THEN [ok |-> TRUE, a |-> a, b |-> b, c |-> c, suf |-> SubSeq(s, q, q + 4)]
             ELSE IF AtDollar(s, p)
             THEN [ok |-> TRUE, a |-> a, b |-> b, c |-> c, suf |-> None]
             ELSE no
        ELSE no

\* int(float("<int>.<frac>e<sign><exp>")): the decimal value truncated toward zero
\* (the inputs of the model are exactly representable, so float() does not round)
SciTrunc(ip, fr, sg, ex) ==
    LET m == IntOf(ip \o fr)
        e == (IF sg = "-" THEN 0 - IntOf(ex) ELSE IntOf(ex)) - Len(fr)
    IN  IF e >= 0 THEN m * Pow10(e) ELSE m \div Pow10(0 - e)

\* the body of the attribute loop: prog.get(attr, '') makes a missing value ''
\* (which never matches); a match is replaced by f"{ts_int:014d}" + (group 2 or '')
ExpAttr(ts) ==
    IF ts = None THEN ts
    ELSE LET m == SciMatch(ts) IN
         IF ~m.ok THEN ts
         ELSE ZeroPad(StrOf(SciTrunc(SubSeq(ts, 1, m.a),
                                     SubSeq(ts, m.a + 2, m.a + m.b + 1),
                                     ts[m.a + m.b + 3],
                                     SubSeq(ts, m.a + m.b + 4, m.a + m.b + 3 + m.c))), 14)
              \o (IF m.suf = None THEN << >> ELSE m.suf)

(***************************************************************************)
(* normalize_id, amp_pattern and the serializer's escaping                 *)
(***************************************************************************)
RECURSIVE ReplaceAll(_, _, _)
\* str.replace(lit, rep): every non-overlapping occurrence, left to right
ReplaceAll(s, lit, rep) ==
    IF s = << >> THEN << >>
    ELSE IF HasAt(s, 1, lit) THEN rep \o ReplaceAll(Slice(s, Len(lit) + 1, Len(s)), lit, rep)
    ELSE << s[1] >> \o ReplaceAll(Slice(s, 2, Len(s)), lit, rep)

AMP  == << "&", "a", "m", "p", ";" >>
LT   == << "&", "l", "t", ";" >>
GT   == << "&", "g", "t", ";" >>
QUOT == << "&", "q", "u", "o", "t", ";" >>

\* xml.sax.saxutils.unescape: &lt; and &gt; first, &amp; last
SaxUnescape(s) ==
    ReplaceAll(ReplaceAll(ReplaceAll(s, LT, << "<" >>), GT, << ">" >>), AMP, << "&" >>)

RECURSIVE Strip(_)
\* str.strip()
Strip(s) ==
    IF s = << >> THEN s
    ELSE IF IsSpace(s[1]) THEN Strip(Slice(s, 2, Len(s)))
    ELSE IF IsSpace(s[Len(s)]) THEN Strip(Slice(s, 1, Len(s) - 1))
    ELSE s

normalize_id(raw_id) == Strip(SaxUnescape(raw_id))

RECURSIVE AlphaRun(_, _)
AlphaRun(s, i) == IF i <= Len(s) /\ IsAlpha(s[i]) THEN 1 + AlphaRun(s, i + 1) ELSE 0

RECURSIVE HexRun(_, _)
HexRun(s, i) == IF i <= Len(s) /\ IsHex(s[i]) THEN 1 + HexRun(s, i + 1) ELSE 0

\* the lookahead of amp_pattern at position i (the position after the `&`):
\* [a-zA-Z]+;  |  #\d+;  |  #x[0-9A-Fa-f]+;
IsEntityAt_Never(s, i) == FALSE

IsEntityAt(s, i) ==
    \/ AlphaRun(s, i) >= 1 /\ HasAt(s, i + AlphaRun(s, i), << ";" >>)
    \/ /\ HasAt(s, i, << "#" >>)
       /\ DigitRun(s, i + 1) >= 1
       /\ HasAt(s, i + 1 + DigitRun(s, i + 1), << ";" >>)
    \/ /\ HasAt(s, i, << "#", "x" >>)
       /\ HexRun(s, i + 2) >= 1
       /\ HasAt(s, i + 2 + HexRun(s, i + 2), << ";" >>)

RECURSIVE AmpSubFrom(_, _)
\* amp_pattern.sub('&amp;', text): every `&` that does not start an entity
AmpSubFrom(s, i) ==
    IF i > Len(s) THEN << >>
    ELSE (IF s[i] = "&" /\ ~IsEntityAt(s, i + 1) THEN AMP ELSE << s[i] >>)
         \o AmpSubFrom(s, i + 1)

AmpSub(s) == AmpSubFrom(s, 1)

\* etree.tostring: character data and attribute values as the serializer writes them
XmlEscapeText(s) ==
    ReplaceAll(ReplaceAll(ReplaceAll(s, << "&" >>, AMP), << "<" >>, LT), << ">" >>, GT)

XmlEscapeAttr(s) ==
    ReplaceAll(ReplaceAll(ReplaceAll(XmlEscapeText(s), << "\"" >>, QUOT),
                          << "\n" >>, << "&", "#", "1", "0", ";" >>),
               << "\t" >>, << "&", "#", "9", ";" >>)

RECURSIVE XmlDecode(_)
\* etree.fromstring: the references the serializer writes, decoded left to right
XmlDecode(s) ==
    IF s = << >> THEN << >>
    ELSE IF HasAt(s, 1, AMP)  THEN << "&" >>  \o XmlDecode(Slice(s, 6, Len(s)))
    ELSE IF HasAt(s, 1, LT)   THEN << "<" >>  \o XmlDecode(Slice(s, 5, Len(s)))
    ELSE IF HasAt(s, 1, GT)   THEN << ">" >>  \o XmlDecode(Slice(s, 5, Len(s)))
    ELSE IF HasAt(s, 1, QUOT) THEN << "\"" >> \o XmlDecode(Slice(s, 7, Len(s)))
    ELSE IF HasAt(s, 1, << "&", "#", "1", "0", ";" >>)
                              THEN << "\n" >> \o XmlDecode(Slice(s, 6, Len(s)))
    ELSE IF HasAt(s, 1, << "&", "#", "9", ";" >>)
                              THEN << "\t" >> \o XmlDecode(Slice(s, 5, Len(s)))
    ELSE << s[1] >> \o XmlDecode(Slice(s, 2, Len(s)))

\* a text node / an attribute value through tostring + fromstring
RoundTripText(s) == IF s = None THEN None ELSE XmlDecode(XmlEscapeText(s))

RoundTripAttr(s) == IF s = None THEN None ELSE XmlDecode(XmlEscapeAttr(s))

(***************************************************************************)
(* datetime.strptime(value, '%Y%m%d%H%M%S %z') and the comparison e <= s   *)
(***************************************************************************)
IsLeap(y) == (y % 4 = 0 /\ y % 100 # 0) \/ y % 400 = 0

DaysInMonth(y, m) ==
    IF m = 2 THEN (IF IsLeap(y) THEN 29 ELSE 28)
    ELSE IF m \in {4, 6, 9, 11} THEN 30 ELSE 31

\* days since 1970-01-01 of a proleptic Gregorian date
DaysFromCivil(y, m, d) ==
    LET yy  == IF m <= 2 THEN y - 1 ELSE y
        era == yy \div 400
        yoe == yy - era * 400
        mp  == (m + 9) % 12
        doy == (153 * mp + 2) \div 5 + d - 1
        doe == yoe * 365 + yoe \div 4 - yoe \div 100 + doy
    IN  era * 146097 + doe - 719468

Unparsable == [ok |-> FALSE, day |-> 0, sec |-> 0]

\* The aware datetime as a UTC instant [day, sec], or Unparsable where strptime
\* raises (TypeError on None, ValueError otherwise).  A value with 14 leading
\* digits is read with fixed-width fields; %z is [+-]HH, an optional colon, MM.
\* (strptime also reads some values with one-digit fields, hence fewer than 14
\* digits, and offsets with seconds: those shapes are not among the inputs here.)
Strptime(ts) ==
    IF ts = None THEN Unparsable
    ELSE
    LET w  == SpaceRun(ts, 15)
        q  == 15 + w                                  \* position of the offset sign
        c  == IF HasAt(ts, q + 3, << ":" >>) THEN 1 ELSE 0
        F(i, j) == IntOf(SubSeq(ts, i, j))
    IN  IF /\ DigitRun(ts, 1) = 14
           /\ w >= 1
           /\ Len(ts) = q + 4 + c
           /\ IsSign(ts[q])
           /\ AllDigits(SubSeq(ts, q + 1, q + 2))
           /\ AllDigits(SubSeq(ts, q + 3 + c, q + 4 + c))
        THEN LET Y  == F(1, 4)
                 mo == F(5, 6)
                 d  == F(7, 8)
                 H  == F(9, 10)
                 M  == F(11, 12)
                 S  == F(13, 14)
                 oh == F(q + 1, q + 2)
                 om == F(q + 3 + c, q + 4 + c)
                 off   == (IF ts[q] = "-" THEN 0 - 1 ELSE 1) * (oh * 3600 + om * 60)
                 local == H * 3600 + M * 60 + S
             IN  IF /\ Y >= 1
                    /\ mo \in 1..12
                    /\ d >= 1
                    /\ d <= DaysInMonth(Y, mo)
                    /\ H <= 23 /\ M <= 59 /\ S <= 59
                    /\ om <= 59
                    /\ oh * 60 + om < 24 * 60
                 THEN [ok  |-> TRUE,
                       day |-> DaysFromCivil(Y, mo, d) + ((local - off) \div 86400),
                       sec |-> (local - off) % 86400]
                 ELSE Unparsable
        ELSE Unparsable

\* e <= s on two aware datetimes
InstantLeq(e, s) == e.day < s.day \/ (e.day = s.day /\ e.sec <= s.sec)

InstantLt(e, s) == e.day < s.day \/ (e.day = s.day /\ e.sec < s.sec)

(***************************************************************************)
(* Elements and the inputs of the model                                    *)
(***************************************************************************)
MaxSources == 2         \* at most this many entries in cfg['files']
MaxElems   == 3         \* at most this many elements in all source documents of a run

Channel(id) == [tag |-> "channel", id |-> id, origin |-> << 0, 0 >>]

Programme(ch, start, stop, text) ==
    [tag |-> "programme", channel |-> ch, start |-> start, stop |-> stop,
     text |-> text, origin |-> << 0, 0 >>]

ID_AB  == << "a", "&", "b" >>
ID_ESC == << "a", "&", "a", "m", "p", ";", "b" >>
ID_C   == << "c" >>
ID_Z   == << "z" >>

T0   == << "2","0","2","4","0","1","0","1","0","0","0","0","0","0"," ","+","0","0","0","0" >>
T1   == << "2","0","2","4","0","1","0","1","0","1","0","0","0","0"," ","+","0","0","0","0" >>
T1P  == << "2","0","2","4","0","1","0","1","0","2","0","0","0","0"," ","+","0","1","0","0" >>
T1C  == << "2","0","2","4","0","1","0","1","0","2","0","0","0","0"," ","+","1",":","0","0" >>
TEXP == << "1",".","6","8","3","4","7","5","2","e","+","0","9"," ","+","0","0","0","0" >>

TXT     == << "t" >>
TXT_AMP == << "x", "&", "y" >>
TXT_ENT == << "&", "a", "m", "p", ";" >>

\* documents about channel identity: equal, entity-encoded and unknown ids
ElemsIds ==
    { Channel(ID_AB), Channel(ID_ESC), Channel(ID_C),
      Programme(ID_ESC, T0, T1, TXT), Programme(ID_Z, T0, T1, TXT) }

\* documents about timestamps and text: one channel, programmes of every shape
ElemsTimes ==
    { Channel(ID_C),
      Programme(ID_C, T0, T1, TXT_AMP),
      Programme(ID_C, T0, T1C, TXT_ENT),
      Programme(ID_C, T1, T0, TXT),
      Programme(ID_C, T1, T1P, TXT),
      Programme(ID_C, TEXP, T1, TXT) }

\* a timestamp no pass rewrites and strptime cannot read
TBAD == << "b", "a", "d" >>

\* documents with defective records: a channel without id, a programme without
\* channel, programmes whose start is absent or unreadable, and sound records
ElemsRecords ==
    { Channel(None), Channel(ID_C),
      Programme(None, T0, T1, TXT),
      Programme(ID_C, TBAD, T1, TXT),
      Programme(ID_C, None, T1, TXT),
      Programme(ID_C, T0, T1, TXT) }

DocsUpTo(pool, n) == UNION { [1..k -> pool] : k \in 0..n }

\* the element objects of a parsed document: origin is the element's identity
Tagged(doc, src) == [i \in 1..Len(doc) |-> [doc[i] EXCEPT !.origin = << src, i >>]]

RECURSIVE SumLen(_)
SumLen(ds) == IF ds = << >> THEN 0 ELSE Len(ds[1].root) + SumLen(Tail(ds))

(***************************************************************************)
(* open_xml as get_channels_programs sees it                               *)
(***************************************************************************)
SourceKinds == {"url", "local"}

\* What can happen to a source of each kind:
\*   ok           the document is parsed and its root returned
\*   fetch_error  requests.get / raise_for_status / the cache write raise inside
\*                fetch_to_cache, which returns None
\*   parse_error  etree.parse (or the gzip read under it) raises inside the try
\*   os_error     open(path) / gzip.open(path) of a local file raises
Conditions(kind) ==
    IF kind = "url" THEN {"ok", "fetch_error", "parse_error"}
    ELSE {"ok", "parse_error", "os_error"}

\* The result of open_xml: "root", "None", or "raise" when the exception leaves
\* open_xml (lines 127-131 are outside every try block).
open_xml(kind, cond) ==
    IF cond = "ok" THEN "root"
    ELSE IF cond = "os_error" THEN "raise"
    ELSE "None"

(***************************************************************************)
(* get_channels_programs: the element loop                                 *)
(***************************************************************************)
Truthy(v) == v # None /\ v # << >>

KeyIndex(dict, k) ==
    IF \E i \in 1..Len(dict) : dict[i].key = k
    THEN CHOOSE i \in 1..Len(dict) : dict[i].key = k
    ELSE 0

\* output_programs.setdefault(ch, []).append(elem)
SetDefaultAppend(dict, k, elem) ==
    LET i == KeyIndex(dict, k) IN
    IF i = 0 THEN Append(dict, [key |-> k, progs |-> << elem >>])
    ELSE [dict EXCEPT ![i].progs = Append(@, elem)]

\* one iteration of `for elem in root` on the merge state st = [oc, seen, op]
\* (trim is False, line 30: the branch of lines 174-181 is never entered)
IngestElem_LastWins(st, elem) ==
    IF elem.tag = "channel" /\ Truthy(elem.id)
    THEN LET norm_c == normalize_id(elem.id)
             i      == KeyIndex(st.oc, norm_c)
         IN  IF i = 0
             THEN [st EXCEPT !.oc = Append(@, [key |-> norm_c, elem |-> elem]),
                             !.seen = @ \cup {elem.id}]
             ELSE [st EXCEPT !.oc[i].elem = elem,
                             !.seen = (@ \ {st.oc[i].elem.id}) \cup {elem.id}]
    ELSE IF elem.tag = "programme" /\ Truthy(elem.channel)
    THEN [st EXCEPT !.op = SetDefaultAppend(@, elem.channel, elem)]
    ELSE st

IngestElem(st, elem) ==
    IF elem.tag = "channel"
    THEN IF Truthy(elem.id)
         THEN LET norm_c == normalize_id(elem.id) IN
              IF KeyIndex(st.oc, norm_c) = 0
              THEN [st EXCEPT !.oc = Append(@, [key |-> norm_c, elem |-> elem]),
                              !.seen = @ \cup {elem.id}]
              ELSE st
         ELSE st
    ELSE IF elem.tag = "programme"
    THEN IF ~Truthy(elem.channel)
         THEN st
         ELSE [st EXCEPT !.op = SetDefaultAppend(@, elem.channel, elem)]
    ELSE st

RECURSIVE IngestFrom(_, _, _)
IngestFrom(st, root, i) ==
    IF i > Len(root) THEN st ELSE IngestFrom(IngestElem(st, root[i]), root, i + 1)

(***************************************************************************)
(* build_merged_tree and the normalization passes, as functions of a tree  *)
(* [channels, programmes] (generator attributes and layout are left out)   *)
(***************************************************************************)
RECURSIVE Flatten(_)
Flatten(dict) == IF dict = << >> THEN << >> ELSE dict[1].progs \o Flatten(Tail(dict))

build_merged_tree(oc, op) ==
    [channels   |-> [i \in 1..Len(oc) |-> oc[i].elem],
     programmes |-> Flatten(op)]

MapProgs(root, F(_)) ==
    [root EXCEPT !.programmes = [i \in 1..Len(@) |-> F(@[i])]]

normalize_timezones(root) ==
    LET F(prog) == [prog EXCEPT !.start = TzAttr(@), !.stop = TzAttr(@)]
    IN  MapProgs(root, F)

normalize_exponents(root) ==
    LET F(prog) == [prog EXCEPT !.start = ExpAttr(@), !.stop = ExpAttr(@)]
    IN  MapProgs(root, F)

\* el.text read from a parsed tree is a str, never an etree.CDATA object: the
\* isinstance test of line 226 is false for every element and nothing is rewritten
escape_specials(root) == root

\* root.remove(prog) when both values parse and e <= s; `except: pass` keeps the
\* programme when either strptime raises
Inverted(prog) ==
    LET st == Strptime(prog.start)
        e  == Strptime(prog.stop)
    IN  st.ok /\ e.ok /\ InstantLeq(e, st)

fix_chronology(root) ==
    LET Keep(prog) == ~Inverted(prog)
    IN  [root EXCEPT !.programmes = SelectSeq(@, Keep)]

\* norm_map = { normalize_id(cid): cid for cid in seen_channel_ids }
NormKeys(seen) == { normalize_id(cid) : cid \in seen }

Canonical(seen, norm) == CHOOSE cid \in seen : normalize_id(cid) = norm

ProgNorm(prog) == normalize_id(IF prog.channel = None THEN << >> ELSE prog.channel)

prune_invalid_programmes_KeepRaw(root, seen) ==
    LET Keep(prog) == ProgNorm(prog) \in NormKeys(seen)
    IN  [root EXCEPT !.programmes = SelectSeq(@, Keep)]

prune_invalid_programmes(root, seen) ==
    LET Keep(prog) == ProgNorm(prog) \in NormKeys(seen)
        F(prog)    == [prog EXCEPT !.channel = Canonical(seen, ProgNorm(prog))]
    IN  MapProgs([root EXCEPT !.programmes = SelectSeq(@, Keep)], F)

\* root.iter() visits every element; `if el.text:` skips empty text
escape_ampersands(root) ==
    LET F(prog) == [prog EXCEPT !.text = IF Truthy(@) THEN AmpSub(@) ELSE @]
    IN  MapProgs(root, F)

\* etree.fromstring(etree.tostring(root)): every attribute value and text node
\* is written by the serializer and read back by the parser
final_escape(root) ==
    LET C(ch)   == [ch EXCEPT !.id = RoundTripAttr(@)]
        F(prog) == [prog EXCEPT !.channel = RoundTripAttr(@),
                                !.start   = RoundTripAttr(@),
                                !.stop    = RoundTripAttr(@),
                                !.text    = RoundTripText(@)]
    IN  MapProgs([root EXCEPT !.channels = [i \in 1..Len(@) |-> C(@[i])]], F)

\* lines 332-338 applied to a tree
Pipeline(root, seen) ==
    final_escape(
      escape_ampersands(
        prune_invalid_programmes(
          fix_chronology(
            escape_specials(
              normalize_exponents(
                normalize_timezones(root)))), seen)))

(***************************************************************************)
(* xmlmerge(): one action per statement                                    *)
(***************************************************************************)
\* the statement that follows each statement of lines 331-339
NextPc_ChronoLast(p) ==
    CASE p = "build"     -> "tz"
      [] p = "tz"        -> "exp"
      [] p = "exp"       -> "esc"
      [] p = "esc"       -> "prune"
      [] p = "prune"     -> "chrono"
      [] p = "chrono"    -> "amp"
      [] p = "amp"       -> "roundtrip"
      [] p = "roundtrip" -> "write"
      [] p = "write"     -> "done"

NextPc(p) ==
    CASE p = "build"     -> "tz"
      [] p = "tz"        -> "exp"
      [] p = "exp"       -> "esc"
      [] p = "esc"       -> "chrono"
      [] p = "chrono"    -> "prune"
      [] p = "prune"     -> "amp"
      [] p = "amp"       -> "roundtrip"
      [] p = "roundtrip" -> "write"
      [] p = "write"     -> "done"

\* no tree yet: pc tells whether merged and written have been assigned
EmptyTree == [channels |-> << >>, programmes |-> << >>]

InitRun ==
    /\ pc = "start"
    /\ cfg = 0
    /\ srcIdx = 0
    /\ docs = << >>
    /\ output_channels = << >>
    /\ seen_channel_ids = {}
    /\ output_programs = << >>
    /\ merged = EmptyTree
    /\ trace = << >>
    /\ written = EmptyTree

\* cfg = read_yaml_input(input_file): sys.exit(1) when the file cannot be read
ReadYamlInput ==
    /\ pc = "start"
    /\ \E ok \in BOOLEAN, n \in 0..MaxSources :
          IF ok THEN pc' = "ingest" /\ cfg' = n
                ELSE pc' = "exit" /\ cfg' = cfg
    /\ trace' = Append(trace, "read_yaml")
    /\ UNCHANGED << srcIdx, docs, output_channels, seen_channel_ids, output_programs,
                    merged, written, fnVars, cacheVars >>

\* one iteration of `for src in cfg.get('files', [])`: get_channels_programs(src)
GetChannelsPrograms(pool) ==
    /\ pc = "ingest"
    /\ srcIdx < cfg
    /\ \E kind \in SourceKinds :
       \E cond \in Conditions(kind) :
       \E doc \in DocsUpTo(pool, MaxElems - SumLen(docs)) :
          LET res  == open_xml(kind, cond)
              root == IF res = "root" THEN Tagged(doc, srcIdx + 1) ELSE << >>
              st   == IngestFrom([oc |-> output_channels, seen |-> seen_channel_ids,
                                  op |-> output_programs], root, 1)
          IN  /\ cond # "ok" => doc = << >>
              /\ docs' = Append(docs, [res |-> res, root |-> root])
              /\ output_channels'  = st.oc
              /\ seen_channel_ids' = st.seen
              /\ output_programs'  = st.op
              /\ IF res = "raise"
                 THEN pc' = "raised" /\ srcIdx' = srcIdx
                 ELSE pc' = pc /\ srcIdx' = srcIdx + 1
    /\ trace' = Append(trace, "ingest")
    /\ UNCHANGED << cfg, merged, written, fnVars, cacheVars >>

\* the statements after the loop leave everything but the tree alone
Pass(name, tree) ==
    /\ merged' = tree
    /\ pc' = NextPc(name)
    /\ trace' = Append(trace, name)
    /\ UNCHANGED << cfg, srcIdx, docs, output_channels, seen_channel_ids,
                    output_programs, written, fnVars, cacheVars >>

BuildMergedTree ==
    /\ pc = "ingest"
    /\ srcIdx = cfg
    /\ Pass("build", build_merged_tree(output_channels, output_programs))

NormalizeTimezones == pc = "tz" /\ Pass("tz", normalize_timezones(merged))

NormalizeExponents == pc = "exp" /\ Pass("exp", normalize_exponents(merged))

EscapeSpecials == pc = "esc" /\ Pass("esc", escape_specials(merged))

FixChronology == pc = "chrono" /\ Pass("chrono", fix_chronology(merged))

PruneInvalidProgrammes ==
    pc = "prune" /\ Pass("prune", prune_invalid_programmes(merged, seen_channel_ids))

EscapeAmpersands == pc = "amp" /\ Pass("amp", escape_ampersands(merged))

FinalEscape == pc = "roundtrip" /\ Pass("roundtrip", final_escape(merged))

\* write_output(merged): an I/O failure is raised to the caller
WriteOutput ==
    /\ pc = "write"
    /\ \E ok \in BOOLEAN :
          IF ok THEN written' = merged /\ pc' = NextPc("write")
                ELSE written' = written /\ pc' = "write_failed"
    /\ trace' = Append(trace, "write")
    /\ UNCHANGED << cfg, srcIdx, docs, output_channels, seen_channel_ids,
                    output_programs, merged, fnVars, cacheVars >>

Passes ==
    \/ BuildMergedTree
    \/ NormalizeTimezones
    \/ NormalizeExponents
    \/ EscapeSpecials
    \/ FixChronology
    \/ PruneInvalidProgrammes
    \/ EscapeAmpersands
    \/ FinalEscape
    \/ WriteOutput

(***************************************************************************)
(* The cache store: url_to_filename, is_fresh, fetch_to_cache and the      *)
(* network branch of open_xml.  Time is counted in hours.                  *)
(***************************************************************************)
updatetime == 4         \* hours before cache refresh
MaxTime    == 6         \* the clock stops here

NoFile == 0 - 1

\* A URL: the token netloc+path makes, whether the path ends in `.gz`, and
\* whether a query string follows the path.
Urls == [name : {"h_a"}, gz : BOOLEAN, query : BOOLEAN]

\* A cache file name: a token followed by `gzs` `.gz` suffixes
CacheFiles == [name : {"h_a"}, gzs : 0..2]

\* url_to_filename: netloc and path, the query string is dropped
url_to_filename(url) == [name |-> url.name, gzs |-> IF url.gz THEN 1 ELSE 0]

\* url.lower().endswith('.gz'): the URL, not the path, is tested
UrlEndsGz(url) == url.gz /\ ~url.query

AddGz(fname) == [fname EXCEPT !.gzs = @ + 1]

\* the None of is_fresh, where a path is expected
NoPath == [name |-> "None", gzs |-> 0]

\* is_fresh: the first of fname, fname + '.gz' that exists and is young enough
is_fresh_Inclusive(files, fname, t) ==
    IF files[fname] # NoFile /\ files[fname] + updatetime >= t THEN fname
    ELSE IF files[AddGz(fname)] # NoFile /\ files[AddGz(fname)] + updatetime >= t
    THEN AddGz(fname)
    ELSE NoPath

is_fresh(files, fname, t) ==
    IF files[fname] # NoFile /\ files[fname] + updatetime > t THEN fname
    ELSE IF files[AddGz(fname)] # NoFile /\ files[AddGz(fname)] + updatetime > t
    THEN AddGz(fname)
    ELSE NoPath

\* fetch_to_cache: the file the response is written to
CacheTarget(url) ==
    IF UrlEndsGz(url) THEN url_to_filename(url) ELSE AddGz(url_to_filename(url))

\* What the request can do: "ok"; "fetch_error" (requests.get or raise_for_status
\* raises, nothing is written); "write_error" (the cache file is created and the
\* write raises: the file stays, None is returned)
FetchConditions == {"ok", "fetch_error", "write_error"}

fetch_to_cache(files, url, cond, t) ==
    IF cond = "fetch_error" THEN files
    ELSE [files EXCEPT ![CacheTarget(url)] = t]

InitCache ==
    /\ now = 0
    /\ cache \in [CacheFiles -> {NoFile, 0}]
    /\ resolves = [last |-> << >>, fetched |-> [u \in Urls |-> NoFile]]

Tick ==
    /\ now < MaxTime
    /\ now' = now + 1
    /\ UNCHANGED << cache, resolves, runVars, fnVars >>

\* open_xml on an http(s) source, lines 117-125
OpenXmlUrl ==
    /\ \E url \in Urls, cond \in FetchConditions :
          LET cached == is_fresh(cache, url_to_filename(url), now)
              net    == cached = NoPath
          IN  /\ ~net => cond = "ok"
              /\ cache' = IF net THEN fetch_to_cache(cache, url, cond, now) ELSE cache
              /\ resolves' =
                    [last    |-> << [url |-> url, t |-> now, before |-> cache,
                                     network |-> net, prev |-> resolves.fetched[url]] >>,
                     fetched |-> IF net /\ cond = "ok"
                                 THEN [resolves.fetched EXCEPT ![url] = now]
                                 ELSE resolves.fetched]
    /\ UNCHANGED << now, runVars, fnVars >>

NextCache == Tick \/ OpenXmlUrl

(***************************************************************************)
(* The attribute rewrites on their own                                     *)
(***************************************************************************)
MaxTsLen == 6           \* longest attribute value tried on tz_pattern

TzChars == {"+", "-", ":", "0", "5"}

TzInputs == UNION { [1..k -> TzChars] : k \in 0..MaxTsLen }

\* a value in scientific notation, part by part
SciRender(c) ==
    c.ip \o << "." >> \o c.fr \o << c.e, c.sg >> \o c.ex \o c.sep
    \o (IF c.suf = None THEN << >> ELSE c.suf)

SciSeps == { << >>, << " " >> }

SciSufs == { None, << "+", "0", "0", "0", "0" >>, << "-", "0", "5", "3", "0" >> }

SciParts ==
    { c \in [ip : { << "1" >>, << "1", "2" >> }, fr : { << "5" >>, << "0", "7" >> },
              e : {"e", "E"}, sg : {"+", "-"},
              ex : { << "0", "0" >>, << "0", "3" >>, << "1" >> },
              sep : SciSeps, suf : SciSufs]
             \cup
             [ip : { << "1" >> }, fr : { << "6", "8", "3", "4", "7", "5", "2" >> },
              e : {"e"}, sg : {"+"}, ex : { << "0", "9" >> },
              sep : SciSeps, suf : SciSufs] :
        c.suf = None => c.sep = << >> }

NotSci == { None, << >>, T0, T1C,
            << "1", "e", "+", "0", "9", " ", "+", "0", "0", "0", "0" >>,
            << "x", "1", ".", "5", "e", "+", "0", "3" >>,
            << "1", ".", "5", "e", "+", "0", "3", "x" >> }

ExpInputs == { SciRender(c) : c \in SciParts } \cup NotSci

InitFn(inputs) ==
    /\ fnArg \in inputs
    /\ fnHist = << >>

FnLast == IF fnHist = << >> THEN fnArg ELSE fnHist[Len(fnHist)]

\* normalize_timezones on one attribute value, then on its own result
ApplyTz ==
    /\ Len(fnHist) < 2
    /\ fnHist' = Append(fnHist, TzAttr(FnLast))
    /\ UNCHANGED << fnArg, runVars, cacheVars >>

\* normalize_exponents on one attribute value, then on its own result
ApplyExp ==
    /\ Len(fnHist) < 2
    /\ fnHist' = Append(fnHist, ExpAttr(FnLast))
    /\ UNCHANGED << fnArg, runVars, cacheVars >>

InitIdleFn == InitFn({None})

InitIdleCache ==
    /\ now = 0
    /\ cache = [f \in CacheFiles |-> NoFile]
    /\ resolves = [last |-> << >>, fetched |-> [u \in Urls |-> NoFile]]

Init == InitRun /\ InitIdleFn /\ InitIdleCache

Next == ReadYamlInput \/ GetChannelsPrograms(ElemsIds) \/ Passes

Spec == Init /\ [][Next]_vars

NextTimes == ReadYamlInput \/ GetChannelsPrograms(ElemsTimes) \/ Passes

SpecTimes == Init /\ [][NextTimes]_vars

NextRecords == ReadYamlInput \/ GetChannelsPrograms(ElemsRecords) \/ Passes

SpecRecords == Init /\ [][NextRecords]_vars

InitCacheSpec == InitRun /\ InitIdleFn /\ InitCache

SpecCache == InitCacheSpec /\ [][NextCache]_vars

InitTz == InitRun /\ InitFn(TzInputs) /\ InitIdleCache

NextTz == ApplyTz

SpecTz == InitTz /\ [][NextTz]_vars

InitExp == InitRun /\ InitFn(ExpInputs) /\ InitIdleCache

NextExp == ApplyExp

SpecExp == InitExp /\ [][NextExp]_vars

(***************************************************************************)
(* Properties of the run                                                   *)
(***************************************************************************)
\* the tree exists from build_merged_tree on
TreeBuilt == pc \in {"tz", "exp", "esc", "chrono", "prune", "amp", "roundtrip",
                     "write", "done", "write_failed"}

\* the elements the parsed documents held, from the history of the run
AllParsed ==
    UNION { { docs[s].root[k] : k \in 1..Len(docs[s].root) } : s \in 1..Len(docs) }

ChannelDefs == { e \in AllParsed : e.tag = "channel" /\ Truthy(e.id) }

ProgrammeDefs == { e \in AllParsed : e.tag = "programme" /\ Truthy(e.channel) }

\* element a was seen no later than element b: earlier source, or same source
\* and earlier position
SeenNoLater(a, b) ==
    \/ a.origin[1] < b.origin[1]
    \/ a.origin[1] = b.origin[1] /\ a.origin[2] <= b.origin[2]

\* the first-seen definition of the normalized id of channel definition d
IsFirstDef(d) ==
    \A d2 \in ChannelDefs : normalize_id(d2.id) = normalize_id(d.id) => SeenNoLater(d, d2)

UniqueFirstWins(chs) ==
    /\ \A i, j \in 1..Len(chs) :
          i # j => normalize_id(chs[i].id) # normalize_id(chs[j].id)
    /\ \A i \in 1..Len(chs) : chs[i] \in ChannelDefs /\ IsFirstDef(chs[i])
    /\ \A d \in ChannelDefs :
          \E i \in 1..Len(chs) : normalize_id(chs[i].id) = normalize_id(d.id)

\* C1: in the built tree and in the written output no two channels share a
\* normalized id, and the channel kept for a normalized id is the element of the
\* first source (and first position) that defined it, with its literal id.
C1_ChannelUniqueness ==
    /\ TreeBuilt => UniqueFirstWins(merged.channels)
    /\ pc = "done" => UniqueFirstWins(written.channels)

\* C1 witness: the second source redefines, under another literal id, a channel
\* of the first source, and the output was written
C1_Witness ==
    /\ pc = "done"
    /\ Len(docs) = 2
    /\ \E a \in ChannelDefs, b \in ChannelDefs :
          /\ a.origin[1] = 1 /\ b.origin[1] = 2
          /\ a.id # b.id
          /\ normalize_id(a.id) = normalize_id(b.id)
          /\ written.channels = << a >>

\* the surviving channel, if any, whose identity the reference ch resolves to
Resolves(ch, chs) ==
    { i \in 1..Len(chs) : normalize_id(chs[i].id) = normalize_id(ch) }

\* the programme parsed as d is in the tree, what the passes did to it aside
Survives(d, root) == \E i \in 1..Len(root.programmes) : root.programmes[i].origin = d.origin

TimesValid(d) ==
    /\ Strptime(TzAttr(d.start)).ok
    /\ Strptime(TzAttr(d.stop)).ok
    /\ InstantLt(Strptime(TzAttr(d.start)), Strptime(TzAttr(d.stop)))

Referential(root) ==
    /\ \A i \in 1..Len(root.programmes) :
          Cardinality({ j \in 1..Len(root.channels) :
                          root.channels[j].id = root.programmes[i].channel }) = 1
    /\ \A d \in ProgrammeDefs :
          /\ Resolves(d.channel, root.channels) = {} => ~Survives(d, root)
          /\ Resolves(d.channel, root.channels) # {} /\ TimesValid(d) => Survives(d, root)
          /\ \A i \in 1..Len(root.programmes) :
                root.programmes[i].origin = d.origin =>
                   \E j \in Resolves(d.channel, root.channels) :
                      root.programmes[i].channel = root.channels[j].id

\* C2: once prune_invalid_programmes has run, and in the written output, every
\* programme's channel attribute equals the id attribute of exactly one channel;
\* a parsed programme whose normalized reference matches no surviving channel is
\* gone, and every other one carries the first-seen literal id of its channel.
C2_ReferentialIntegrity ==
    /\ pc \in {"amp", "roundtrip", "write", "write_failed", "done"} => Referential(merged)
    /\ pc = "done" => Referential(written)

\* C2 witness: the output holds a programme whose reference was rewritten to the
\* channel's literal id, and a programme with an unknown channel was pruned
C2_Witness ==
    /\ pc = "done"
    /\ \E d \in ProgrammeDefs : \E i \in 1..Len(written.programmes) :
          /\ written.programmes[i].origin = d.origin
          /\ written.programmes[i].channel # d.channel
    /\ \E d \in ProgrammeDefs : ~Survives(d, written)

\* C5: a source whose resolution fails contributes nothing and raises nothing:
\* no exception leaves get_channels_programs, every element of the merge state
\* comes from a source that was parsed, and the passes run only when every
\* configured source has been handled.
C5_PartialFailureTolerated ==
    /\ pc # "raised"
    /\ \A s \in 1..Len(docs) : docs[s].res # "raise"
    /\ \A i \in 1..Len(output_channels) :
          docs[output_channels[i].elem.origin[1]].res = "root"
    /\ TreeBuilt => srcIdx = cfg /\ Len(docs) = cfg

\* the order of lines 331-339, as the specification lists it
RequiredOrder ==
    << "build", "tz", "exp", "esc", "chrono", "prune", "amp", "roundtrip", "write" >>

IngestCount == Cardinality({ i \in 1..Len(trace) : trace[i] = "ingest" })

IsPrefix(a, b) == Len(a) <= Len(b) /\ a = SubSeq(b, 1, Len(a))

\* C8: in every run the trace is the YAML read, one ingest per source, then a
\* prefix of build, timezone, exponent, markup, chronology, pruning, ampersand
\* sweep, round trip, write; no step of that list runs before all configured
\* sources were ingested, and a completed run has run each exactly once.
C8_PipelineOrder ==
    LET k    == IngestCount
        rest == Slice(trace, k + 2, Len(trace))
    IN  /\ trace # << >> => trace[1] = "read_yaml"
        /\ \A i \in 2..Len(trace) : i <= k + 1 => trace[i] = "ingest"
        /\ IsPrefix(rest, RequiredOrder)
        /\ rest # << >> => k = cfg /\ Len(docs) = cfg
        /\ pc = "done" => rest = RequiredOrder /\ written = merged

\* C8 witness: a completed run over two sources
C8_Witness == pc = "done" /\ cfg = 2 /\ Len(trace) = 12

(***************************************************************************)
(* Properties of the run on documents about timestamps and text            *)
(***************************************************************************)
\* C3: in the written output every programme has a stop instant strictly after
\* its start instant (both values denote instants, offsets taken into account).
C3_Chronology ==
    pc = "done" =>
       \A i \in 1..Len(written.programmes) :
          LET st == Strptime(written.programmes[i].start)
              e  == Strptime(written.programmes[i].stop)
          IN  st.ok /\ e.ok /\ InstantLt(st, e)

\* C4: in the written output no two programmes of one channel start at the same
\* instant: of two records with an identical start only the first is kept.
C4_NoStartCollision ==
    pc = "done" =>
       \A i, j \in 1..Len(written.programmes) :
          LET a == written.programmes[i]
              b == written.programmes[j]
          IN  (/\ i # j
               /\ a.channel = b.channel
               /\ Strptime(a.start).ok
               /\ Strptime(b.start).ok)
              => Strptime(a.start) # Strptime(b.start)

\* C6: the pipeline of lines 332-338 applied to a tree that went through it once
\* changes nothing: no attribute value, text node or programme differs.
C6_PipelineIdempotent ==
    pc = "done" => Pipeline(written, seen_channel_ids) = written

\* C6 witness: the written tree is one the first application did change: a raw
\* ampersand was escaped and a colon offset rewritten
C6_Witness ==
    /\ pc = "done"
    /\ \E i \in 1..Len(written.programmes) :
          written.programmes[i].text = << "x" >> \o AMP \o << "y" >>
    /\ \E i \in 1..Len(written.programmes) : written.programmes[i].stop = T1P

(***************************************************************************)
(* Properties of the attribute rewrites                                    *)
(***************************************************************************)
\* C9: normalize_timezones rewrites a value ending in sign, one- or two-digit
\* hour, colon, two-digit minutes to sign, two-digit zero-padded hour, minutes,
\* keeps what precedes the offset, keeps a value ending in sign and four digits,
\* and a second application changes nothing.
C9_TimezoneCanonical ==
    Len(fnHist) >= 1 =>
       LET s == fnArg
           r == fnHist[1]
           n == Len(fnArg)
       IN  /\ (/\ n >= 5
               /\ IsSign(s[n-4]) /\ IsDigit(s[n-3]) /\ s[n-2] = ":"
               /\ IsDigit(s[n-1]) /\ IsDigit(s[n]))
              => r = Slice(s, 1, n - 5) \o << s[n-4], "0", s[n-3], s[n-1], s[n] >>
           /\ (/\ n >= 6
               /\ IsSign(s[n-5]) /\ IsDigit(s[n-4]) /\ IsDigit(s[n-3]) /\ s[n-2] = ":"
               /\ IsDigit(s[n-1]) /\ IsDigit(s[n]))
              => r = Slice(s, 1, n - 6) \o << s[n-5], s[n-4], s[n-3], s[n-1], s[n] >>
           /\ (/\ n >= 5
               /\ IsSign(s[n-4])
               /\ \A i \in 0..3 : IsDigit(s[n-i]))
              => r = s
           /\ Len(fnHist) = 2 => fnHist[2] = r

\* C9 witness: `5+5:50` became `5+0550` and stayed so
C9_Witness ==
    /\ fnArg = << "5", "+", "5", ":", "5", "0" >>
    /\ fnHist = << << "5", "+", "0", "5", "5", "0" >>, << "5", "+", "0", "5", "5", "0" >> >>

\* C10: normalize_exponents rewrites a value in scientific notation to its
\* integer truncation, zero-padded to 14 digits, followed by the offset suffix
\* of the input separated from the digits as it was in the input, and leaves
\* every other value unchanged.
C10_ExponentRepair ==
    Len(fnHist) >= 1 =>
       /\ \A c \in SciParts :
             fnArg = SciRender(c) =>
                fnHist[1] = ZeroPad(StrOf(SciTrunc(c.ip, c.fr, c.sg, c.ex)), 14)
                            \o (IF c.suf = None THEN << >> ELSE c.sep \o c.suf)
       /\ fnArg \in NotSci => fnHist[1] = fnArg

(***************************************************************************)
(* Properties of the cache                                                 *)
(***************************************************************************)
\* the cached artifacts of a URL's cache key: the file named by the key (netloc
\* and path) and the same name with `.gz` appended
ArtifactsOf(url) ==
    { f \in CacheFiles :
        /\ f.name = url.name
        /\ f.gzs \in { IF url.gz THEN 1 ELSE 0, IF url.gz THEN 2 ELSE 1 } }

FreshArtifact(files, url, t) ==
    \E f \in ArtifactsOf(url) : files[f] # NoFile /\ files[f] + updatetime > t

\* C7: open_xml on a network source issues a request iff no cached artifact of
\* the source's cache key has last-modified time + updatetime hours > now; when
\* one has, the cache is left as it is; and a source fetched successfully less
\* than updatetime hours ago is served from the cache.
C7_CacheFreshness ==
    resolves.last # << >> =>
       LET r == resolves.last[1] IN
       /\ r.network <=> ~FreshArtifact(r.before, r.url, r.t)
       /\ ~r.network => cache = r.before
       /\ (r.prev # NoFile /\ r.t < r.prev + updatetime) => ~r.network

\* C7 witness: a URL fetched earlier is resolved in the last hour of its TTL
\* and served from the cache
C7_Witness ==
    /\ resolves.last # << >>
    /\ resolves.last[1].prev # NoFile
    /\ resolves.last[1].t = resolves.last[1].prev + updatetime - 1
    /\ ~resolves.last[1].network

(***************************************************************************)
(* Properties of the run on documents with defective records               *)
(***************************************************************************)
\* the chronology pass has run
ChronologyDone == pc \in {"prune", "amp", "roundtrip", "write", "done", "write_failed"}

\* both timestamps are present and read as `YYYYMMDDHHMMSS +-HHMM`
TimesParse(prog) == Strptime(prog.start).ok /\ Strptime(prog.stop).ok

\* C11: once fix_chronology has run, no programme whose start or stop is
\* missing or cannot be parsed remains in the tree.
C11_UnparsableRemoved ==
    ChronologyDone =>
       \A i \in 1..Len(merged.programmes) : TimesParse(merged.programmes[i])

\* the element with this identity is held by the merge state
InChannels(e) ==
    \E i \in 1..Len(output_channels) : output_channels[i].elem.origin = e.origin

InPrograms(e) ==
    \E i \in 1..Len(output_programs) : \E k \in 1..Len(output_programs[i].progs) :
       output_programs[i].progs[k].origin = e.origin

\* C12: of the elements of every parsed source, a channel without id, a
\* programme without channel and a programme with an unparsable timestamp are
\* not added to the merge state, while every sound element of the same source
\* is still processed: a sound programme is added, a sound channel is added or
\* is the duplicate of a channel that is.
C12_RecordIsolation ==
    \A e \in AllParsed :
       /\ (e.tag = "channel" /\ ~Truthy(e.id)) => ~InChannels(e)
       /\ (e.tag = "programme" /\ ~Truthy(e.channel)) => ~InPrograms(e)
       /\ (e.tag = "programme" /\ ~TimesParse(e)) => ~InPrograms(e)
       /\ (e.tag = "programme" /\ Truthy(e.channel) /\ TimesParse(e)) => InPrograms(e)
       /\ (e.tag = "channel" /\ Truthy(e.id)) =>
             \E i \in 1..Len(output_channels) :
                output_channels[i].key = normalize_id(e.id)

\* the part of C12 the element loop does keep: records lacking id or channel
\* are skipped and every sound record of the same source is processed
RecordsMissingKeySkipped ==
    \A e \in AllParsed :
       /\ (e.tag = "channel" /\ ~Truthy(e.id)) => ~InChannels(e)
       /\ (e.tag = "programme" /\ ~Truthy(e.channel)) => ~InPrograms(e)
       /\ (e.tag = "programme" /\ Truthy(e.channel)) => InPrograms(e)

====
